---- MODULE Spec2Model ----
(***************************************************************************)
(* Model of the separately chained hash table of hashtable.c / hashtable.h *)
(* (create_table, insert_user, lookup_user, delete_user, destroy_table,    *)
(* rehash_table, djb_hash).                                                *)
(*                                                                         *)
(* The caller's handle (a pointer to hash_table_t) is the variable table:   *)
(* a struct                                                                *)
(* with a null flag.  User records live in the heap users, a function from *)
(* record addresses (positive integers) to structs; the chain link next is *)
(* an address or NULL.  Byte strings are sequences of byte values, 64-bit  *)
(* unsigned integers are sequences of four 16-bit limbs (low limb first),  *)
(* so that the arithmetic of djb_hash keeps its width.  char_signed tells  *)
(* whether plain char is a signed type on the build at hand.               *)
(***************************************************************************)
EXTENDS Integers, Sequences, FiniteSets, TLC

VARIABLES table, users, errno, fault, last, hist, char_signed

vars == <<table, users, errno, fault, last, hist, char_signed>>

-----------------------------------------------------------------------------
(* Program constants *)

INIT_TBL_CAP == 64
\* LOAD_FACTOR is 0.75 = LF_NUM / LF_DEN
LF_NUM == 3
LF_DEN == 4
UINT16_MAX == 65535
EINVAL == 22
NULL == 0
HASH_SEED == 5381
HASH_SHIFT == 5

(* Bounds of the model *)

\* number of distinct filler names the driver may insert, in order
MaxFill == 49
\* number of records with a test name the driver may create per table
MaxTest == 2
\* number of explicit rehash_table calls per table
MaxGrows == 2
\* calls with a test name are made on a table that holds no filler record
\* or at least FillGate of them
FillGate == 47
\* longest key handed to djb_hash on its own; 5381 * 33^11 exceeds 2^64
MaxKeyLen == 11

-----------------------------------------------------------------------------
(* 64-bit unsigned arithmetic on limbs *)

LimbBase == 65536
NumLimbs == 4

\* the uint64_t value of a small natural number
U64(n) == [i \in 1..NumLimbs |-> IF i = 1 THEN n % LimbBase
                                  ELSE IF i = 2 THEN (n \div LimbBase) % LimbBase
                                  ELSE 0]

RECURSIVE U64Carry(_, _, _, _, _)
\* limbs of (h * mul + add) mod 2^64, limb i onwards, with incoming carry
U64Carry(h, mul, add, i, carry) ==
    IF i > NumLimbs THEN << >>
    ELSE LET v == h[i] * mul + carry + (IF i = 1 THEN add ELSE 0)
         IN  <<v % LimbBase>> \o U64Carry(h, mul, add, i + 1, v \div LimbBase)

RECURSIVE Pow2(_)
Pow2(k) == IF k = 0 THEN 1 ELSE 2 * Pow2(k - 1)

\* ((hash << shift) + hash) + c, in 64-bit wraparound arithmetic
HashStep(hash, c) == U64Carry(hash, Pow2(HASH_SHIFT) + 1, c, 1, 0)

RECURSIVE U64ModFrom(_, _, _, _)
U64ModFrom(h, m, i, r) ==
    IF i = 0 THEN r ELSE U64ModFrom(h, m, i - 1, (r * LimbBase + h[i]) % m)

\* h % m for a uint64_t h and 0 < m <= 2^15
U64Mod(h, m) == U64ModFrom(h, m, NumLimbs, 0)

U64IsZero(h) == \A i \in 1..NumLimbs : h[i] = 0

-----------------------------------------------------------------------------
(* Strings *)

\* the absent string (a NULL char pointer); no byte string equals it
NullName == << -1 >>

\* A string is the sequence of its bytes.  Two long strings are held in the
\* state by a mark, as the absent string is, and Bytes gives the bytes they
\* stand for: UINT16_MAX bytes "A", and the same followed by one byte "@".
LongName == << -2 >>
LongQuery == << -3 >>
LongNameBytes == SubSeq([i \in 1..UINT16_MAX |-> 65], 1, UINT16_MAX)
LongQueryBytes == Append(LongNameBytes, 64)

\* the bytes of the string s
Bytes(s) ==
    IF s = LongName THEN LongNameBytes
    ELSE IF s = LongQuery THEN LongQueryBytes
    ELSE s

\* the byte at 1-based position i of the NUL-terminated byte sequence s
CharAt(s, i) == IF i <= Len(s) THEN s[i] ELSE 0

RECURSIVE StrncmpStop(_, _, _, _)
\* the first place in lo..hi where strncmp stops, at bytes that differ or at
\* the terminating NUL of both strings; 0 if there is none.  (The places are
\* searched by halves, in order, so that names longer than UINT16_MAX can be
\* compared.)
StrncmpStop(s1, s2, lo, hi) ==
    IF lo > hi THEN 0
    ELSE IF lo = hi
    THEN IF CharAt(s1, lo) # CharAt(s2, lo) \/ CharAt(s1, lo) = 0 THEN lo ELSE 0
    ELSE LET mid == (lo + hi) \div 2
             left == StrncmpStop(s1, s2, lo, mid)
         IN  IF left # 0 THEN left ELSE StrncmpStop(s1, s2, mid + 1, hi)

\* strncmp(s1, s2, n): compares at most n bytes, stops at the terminating NUL
strncmp(s1, s2, n) ==
    LET i == StrncmpStop(Bytes(s1), Bytes(s2), 1, n)
    IN  IF i = 0 THEN 0 ELSE CharAt(Bytes(s1), i) - CharAt(Bytes(s2), i)

strlen(s) == Len(Bytes(s))

\* the value of *key for the byte c: key is a pointer to plain char, so a
\* byte above 127 reads as c - 256 where char is signed
CharValue(c) == IF char_signed /\ c >= 128 THEN c - 256 ELSE c

RECURSIVE DjbLoop(_, _, _, _)
\* the for loop of djb_hash for idx = lo .. hi-1, from the value hash.  (The
\* steps are taken in order, the range split by halves, so that keys longer
\* than UINT16_MAX can be hashed; the test on left only makes the first half
\* be computed before the second.)
DjbLoop(key, lo, hi, hash) ==
    IF hi <= lo THEN hash
    ELSE IF hi = lo + 1 THEN HashStep(hash, CharValue(key[lo + 1]))
    ELSE LET mid == (lo + hi) \div 2
             left == DjbLoop(key, lo, mid, hash)
         IN  IF U64IsZero(left) THEN DjbLoop(key, mid, hi, U64(0))
             ELSE DjbLoop(key, mid, hi, left)

\* the value djb_hash returns; for the absent key it returns 0 (and sets
\* errno, see HashKey), which no caller reaches with a present name
djb_hash(key, length) ==
    IF key = NullName THEN U64(0)
    ELSE DjbLoop(Bytes(key), 0, length, U64(HASH_SEED))

-----------------------------------------------------------------------------
(* The table and the heap of user records *)

\* the table a NULL handle designates
NullTable == [null |-> TRUE, items |-> << >>, capacity |-> 0, num_items |-> 0]

\* calloc: the fail_at-th allocation of a call fails (fail_at = 0: none does)
CallocOk(fail_at, k) == fail_at # k

create_table(fail_at) ==
    IF ~CallocOk(fail_at, 1) THEN NullTable
    ELSE IF ~CallocOk(fail_at, 2) THEN NullTable
    ELSE [null |-> FALSE,
          items |-> [i \in 0..(INIT_TBL_CAP - 1) |-> NULL],
          capacity |-> INIT_TBL_CAP,
          num_items |-> 0]

\* the record create_user returns: copies of name and passwd, perms, no link
\* (for an absent name create_user returns NULL, see CreatedAt)
create_user(name, passwd, perms) ==
    [name |-> name, passwd |-> passwd, perms |-> perms, next |-> NULL]

\* new_lf > LOAD_FACTOR, where new_lf = (num_items + 1) / (float) capacity.
\* The capacities are 64 * 2^g and the counts are below 2^24, so the float
\* quotient is exact and the comparison is the comparison of the fractions.
LoadExceeded_AtThreshold(num_items, capacity) ==
    (num_items + 1) * LF_DEN >= LF_NUM * capacity

LoadExceeded(num_items, capacity) ==
    (num_items + 1) * LF_DEN > LF_NUM * capacity

BucketIndex_InitialCapacity(res, capacity) == U64Mod(res, INIT_TBL_CAP)

\* res % capacity
BucketIndex(res, capacity) == U64Mod(res, capacity)

NewCap_NotDoubled(capacity) == capacity

\* growth by a fixed step
NewCap_PlusInitial(capacity) == capacity + INIT_TBL_CAP

\* new_cap = capacity * 2
NewCap(capacity) == capacity * 2

\* strncmp(p_temp->name, name, UINT16_MAX) == 0
NameMatches(rec_name, name) == strncmp(rec_name, name, UINT16_MAX) = 0

\* the hash failure test of insert_user
HashFailedRes(en, res) == en = EINVAL /\ U64IsZero(res)

\* the hash failure test of lookup_user and delete_user
HashFailedIdx(en, idx) == en = EINVAL /\ idx = 0

\* the two assignments in the other order: items[idx] = p_user;
\* p_user->next = items[idx]
Prepend_LinkAfterStore(t, us, p_user, idx) ==
    [table |-> [t EXCEPT !.items[idx] = p_user, !.num_items = t.num_items + 1],
     users |-> [us EXCEPT ![p_user].next = p_user]]

\* p_user->next = items[idx]; items[idx] = p_user; ++num_items
Prepend(t, us, p_user, idx) ==
    [table |-> [t EXCEPT !.items[idx] = p_user, !.num_items = t.num_items + 1],
     users |-> [us EXCEPT ![p_user].next = t.items[idx]]]

RECURSIVE insert_user(_, _, _, _, _, _)
RECURSIVE rehash_table(_, _, _, _, _)
RECURSIVE RehashChain(_, _, _, _)
RECURSIVE RehashBuckets(_, _, _, _, _, _)

\* insert_user with the bucket index taken from the capacity on entry
insert_user_StaleCapacity(t, us, p_user, en, fail_at, nalloc) ==
    IF t.null
    THEN [ret |-> FALSE, table |-> t, users |-> us, nalloc |-> nalloc,
          grew |-> FALSE, fault |-> TRUE]
    ELSE IF p_user = NULL \/ us[p_user].name = NullName
    THEN [ret |-> FALSE, table |-> t, users |-> us, nalloc |-> nalloc,
          grew |-> FALSE, fault |-> FALSE]
    ELSE
    LET exceeded == LoadExceeded(t.num_items, t.capacity)
        g == IF exceeded
             THEN rehash_table(t, us, en, fail_at, nalloc)
             ELSE [table |-> t, old |-> t, users |-> us, nalloc |-> nalloc,
                   fault |-> FALSE]
        res == djb_hash(us[p_user].name, strlen(us[p_user].name))
        idx == BucketIndex(res, t.capacity)
        pre == Prepend(g.table, g.users, p_user, idx)
    IN  IF g.table.null \/ g.fault
        THEN [ret |-> FALSE, table |-> g.table, users |-> g.users,
              nalloc |-> g.nalloc, grew |-> FALSE, fault |-> g.fault]
        ELSE [ret |-> TRUE, table |-> pre.table, users |-> pre.users,
              nalloc |-> g.nalloc, grew |-> exceeded, fault |-> FALSE]

\* the inner loop of rehash_table with the successor read after the insertion
RehashChain_NextAfterInsert(st, p_temp, en, fail_at) ==
    IF p_temp = NULL \/ st.fault THEN st
    ELSE LET r == insert_user(st.table, st.users, p_temp, en, fail_at, st.nalloc)
         IN  RehashChain([table |-> r.table, users |-> r.users,
                          nalloc |-> r.nalloc, fault |-> r.fault],
                         r.users[p_temp].next, en, fail_at)

\* insert_user(&t, p_user) with errno = en on entry.  Result: ret, the
\* caller's handle after the call, the heap, the number of allocations made,
\* whether a rehash was done, and fault: the call dereferenced a NULL table.
insert_user(t, us, p_user, en, fail_at, nalloc) ==
    IF t.null
    THEN [ret |-> FALSE, table |-> t, users |-> us, nalloc |-> nalloc,
          grew |-> FALSE, fault |-> TRUE]
    ELSE IF p_user = NULL \/ us[p_user].name = NullName
    THEN [ret |-> FALSE, table |-> t, users |-> us, nalloc |-> nalloc,
          grew |-> FALSE, fault |-> FALSE]
    ELSE
    LET exceeded == LoadExceeded(t.num_items, t.capacity)
        g == IF exceeded
             THEN rehash_table(t, us, en, fail_at, nalloc)
             ELSE [table |-> t, old |-> t, users |-> us, nalloc |-> nalloc,
                   fault |-> FALSE]
        res == djb_hash(us[p_user].name, strlen(us[p_user].name))
        idx == BucketIndex(res, g.table.capacity)
        pre == Prepend(g.table, g.users, p_user, idx)
    IN  IF g.table.null \/ g.fault
        THEN [ret |-> FALSE, table |-> g.table, users |-> g.users,
              nalloc |-> g.nalloc, grew |-> FALSE, fault |-> g.fault]
        ELSE IF HashFailedRes(en, res)
        THEN [ret |-> FALSE, table |-> g.table, users |-> g.users,
              nalloc |-> g.nalloc, grew |-> exceeded, fault |-> FALSE]
        ELSE [ret |-> TRUE, table |-> pre.table, users |-> pre.users,
              nalloc |-> g.nalloc, grew |-> exceeded, fault |-> FALSE]

\* the inner while loop of rehash_table from p_temp; st = [table, users,
\* nalloc, fault] is the new table, the heap and the allocation count so far
RehashChain(st, p_temp, en, fail_at) ==
    IF p_temp = NULL \/ st.fault THEN st
    ELSE LET p_next == st.users[p_temp].next
             r == insert_user(st.table, st.users, p_temp, en, fail_at, st.nalloc)
         IN  RehashChain([table |-> r.table, users |-> r.users,
                          nalloc |-> r.nalloc, fault |-> r.fault],
                         p_next, en, fail_at)

\* the for loop of rehash_table over the buckets lo .. hi-1 of the old array
RehashBuckets(st, old_items, lo, hi, en, fail_at) ==
    IF hi <= lo \/ (\A i \in lo..(hi - 1) : old_items[i] = NULL) THEN st
    ELSE IF hi = lo + 1
    THEN RehashChain(st, old_items[lo], en, fail_at)
    ELSE LET mid == (lo + hi) \div 2
             left == RehashBuckets(st, old_items, lo, mid, en, fail_at)
         IN  IF left.fault THEN left
             ELSE RehashBuckets(left, old_items, mid, hi, en, fail_at)

\* rehash_table(&t).  Result: table, the returned pointer (null on failure);
\* old, the value of the argument handle after the call; the heap; the
\* allocation count; fault.
rehash_table(t, us, en, fail_at, nalloc) ==
    IF t.null
    THEN [table |-> NullTable, old |-> t, users |-> us, nalloc |-> nalloc,
          fault |-> FALSE]
    ELSE IF ~CallocOk(fail_at, nalloc + 1)
    THEN [table |-> NullTable, old |-> t, users |-> us, nalloc |-> nalloc + 1,
          fault |-> FALSE]
    ELSE IF ~CallocOk(fail_at, nalloc + 2)
    THEN [table |-> NullTable, old |-> t, users |-> us, nalloc |-> nalloc + 2,
          fault |-> FALSE]
    ELSE
    LET new_cap == NewCap(t.capacity)
        p_new_ht == [null |-> FALSE,
                     items |-> [i \in 0..(new_cap - 1) |-> NULL],
                     capacity |-> new_cap,
                     num_items |-> 0]
        st == RehashBuckets([table |-> p_new_ht, users |-> us,
                             nalloc |-> nalloc + 2, fault |-> FALSE],
                            t.items, 0, t.capacity, en, fail_at)
    IN  [table |-> st.table, old |-> NullTable, users |-> st.users,
         nalloc |-> st.nalloc, fault |-> st.fault]

RECURSIVE FindUser(_, _, _, _)
\* the while loop of lookup_user and delete_user from p_temp with predecessor
\* p_prev: the first record of the chain whose name matches, and the record
\* before it
FindUser(us, p_temp, p_prev, name) ==
    IF p_temp = NULL THEN [p_temp |-> NULL, p_prev |-> p_prev]
    ELSE IF NameMatches(us[p_temp].name, name)
    THEN [p_temp |-> p_temp, p_prev |-> p_prev]
    ELSE FindUser(us, us[p_temp].next, p_temp, name)

\* lookup_user(t, name) with errno = en on entry: the record found, or NULL
lookup_user(t, us, name, en) ==
    IF t.null \/ name = NullName THEN NULL
    ELSE LET idx == BucketIndex(djb_hash(name, strlen(name)), t.capacity)
         IN  IF HashFailedIdx(en, idx) THEN NULL
             ELSE FindUser(us, t.items[idx], NULL, name).p_temp

\* destroy_user(&p): the record and its buffers are released
destroy_user(us, p) == [q \in (DOMAIN us) \ {p} |-> us[q]]

\* Unlink without the predecessor: the bucket head is always overwritten
Unlink_HeadOnly(t, us, idx, f) ==
    [table |-> [t EXCEPT !.items[idx] = us[f.p_temp].next], users |-> us]

\* the unlinking of delete_user: the head of the bucket, or the link of the
\* predecessor, is set to the successor of the record found
Unlink(t, us, idx, f) ==
    IF f.p_prev = NULL
    THEN [table |-> [t EXCEPT !.items[idx] = us[f.p_temp].next], users |-> us]
    ELSE [table |-> t,
          users |-> [us EXCEPT ![f.p_prev].next = us[f.p_temp].next]]

\* delete_user that unlinks the head of the bucket when no record matches
delete_user_MissUnlinksHead(t, us, name, en) ==
    IF t.null \/ name = NullName THEN [ret |-> FALSE, table |-> t, users |-> us]
    ELSE LET idx == BucketIndex(djb_hash(name, strlen(name)), t.capacity)
             f == FindUser(us, t.items[idx], NULL, name)
             u == Unlink(t, us, idx, f)
         IN  IF HashFailedIdx(en, idx)
             THEN [ret |-> FALSE, table |-> t, users |-> us]
             ELSE IF f.p_temp = NULL
             THEN [ret |-> FALSE,
                   table |-> IF t.items[idx] = NULL THEN t
                             ELSE [t EXCEPT !.items[idx] = us[t.items[idx]].next],
                   users |-> us]
             ELSE [ret |-> TRUE, table |-> u.table,
                   users |-> destroy_user(u.users, f.p_temp)]

\* delete_user(t, name) with errno = en on entry
delete_user(t, us, name, en) ==
    IF t.null \/ name = NullName THEN [ret |-> FALSE, table |-> t, users |-> us]
    ELSE LET idx == BucketIndex(djb_hash(name, strlen(name)), t.capacity)
             f == FindUser(us, t.items[idx], NULL, name)
             u == Unlink(t, us, idx, f)
         IN  IF HashFailedIdx(en, idx) \/ f.p_temp = NULL
             THEN [ret |-> FALSE, table |-> t, users |-> us]
             ELSE [ret |-> TRUE, table |-> u.table,
                   users |-> destroy_user(u.users, f.p_temp)]

RECURSIVE DestroyChain(_, _)
\* the while loop of destroy_table from p_temp; st = [users, fault]: reading
\* the link of a record that was freed before is a fault
DestroyChain(st, p_temp) ==
    IF p_temp = NULL \/ st.fault THEN st
    ELSE IF p_temp \notin DOMAIN st.users THEN [st EXCEPT !.fault = TRUE]
    ELSE LET p_next == st.users[p_temp].next
         IN  DestroyChain([st EXCEPT !.users = destroy_user(st.users, p_temp)],
                          p_next)

RECURSIVE DestroyBuckets(_, _, _, _)
\* the for loop of destroy_table over the buckets lo .. hi-1
DestroyBuckets(st, items, lo, hi) ==
    IF hi <= lo \/ (\A i \in lo..(hi - 1) : items[i] = NULL) THEN st
    ELSE IF hi = lo + 1
    THEN DestroyChain(st, items[lo])
    ELSE LET mid == (lo + hi) \div 2
             left == DestroyBuckets(st, items, lo, mid)
         IN  IF left.fault THEN left
             ELSE DestroyBuckets(left, items, mid, hi)

\* destroy_table that frees everything but leaves the caller's handle as it was
destroy_table_KeepsHandle(t, us) ==
    IF t.null THEN [table |-> t, users |-> us, fault |-> FALSE]
    ELSE LET st == DestroyBuckets([users |-> us, fault |-> FALSE],
                                  t.items, 0, t.capacity)
         IN  [table |-> t, users |-> st.users, fault |-> st.fault]

\* destroy_table(&t): the table the handle designates after the call, the
\* heap, and whether the call faulted
destroy_table(t, us) ==
    IF t.null THEN [table |-> t, users |-> us, fault |-> FALSE]
    ELSE LET st == DestroyBuckets([users |-> us, fault |-> FALSE],
                                  t.items, 0, t.capacity)
         IN  [table |-> NullTable, users |-> st.users, fault |-> st.fault]

-----------------------------------------------------------------------------
(* The callers: names, payloads and the bookkeeping of the driver *)

\* "f01", "f02", ...: the i-th filler name (i < 100)
FillerName(i) == <<102, 48 + (i \div 10), 48 + (i % 10)>>

\* "1" and "q": both hash to bucket 22 of 64, and to 86 and 22 of 128
TestNames == { <<49>>, <<113>> }

\* "f38" hashes to bucket 22 of 64 and of 128
ProbeNames == TestNames \cup { <<102, 51, 56>> }

\* (passwd, perms) of the k-th record with a test name: ("s1", 1), ("s2", 2), ...
Payload(k) == [passwd |-> <<115, 48 + k>>, perms |-> k]

FillerPasswd == <<112, 119>>

AllocChoices == 0..2

EmptyHeap == [q \in {} |-> create_user(<< >>, << >>, 0)]

\* the driver's schedule: the table holds no filler record, or many
NoFill == hist.fill = 0
NearFull == hist.fill >= FillGate

\* calls with an absent name are made on a table without filler records
AbsentNames == IF NoFill THEN {NullName} ELSE {}

\* the address create_user returns for a record wanted at p: NULL for an
\* absent name
CreatedAt(p, name) == IF name = NullName THEN NULL ELSE p

HistZero == [fill |-> 0, ntest |-> 0, inserts |-> 0, pure |-> TRUE, grows |-> 0]

\* the record of the last call: the operation, its name argument, its boolean
\* result, the record it returned or inserted, whether it rehashed, whether
\* an allocation failed in it, and capacity and num_items on entry
Call(op, name, ret, id, grew, allocfail) ==
    [op |-> op, name |-> name, ret |-> ret, id |-> id, grew |-> grew,
     allocfail |-> allocfail, cap0 |-> table.capacity, n0 |-> table.num_items]

\* errno is 0 at program start; no call below changes it (djb_hash sets it
\* only for an absent key).  The names of these callers hold bytes below 128
\* only, which read alike whether char is signed or not; HashInit draws the
\* build.
Init ==
    /\ char_signed = TRUE
    /\ table = create_table(0)
    /\ users = EmptyHeap
    /\ errno = 0
    /\ fault = FALSE
    /\ last = [op |-> "create", name |-> << >>, ret |-> TRUE, id |-> NULL,
               grew |-> FALSE, allocfail |-> FALSE, cap0 |-> 0, n0 |-> 0]
    /\ hist = HistZero

\* create_user(name, passwd, ..., perms) at address p, then
\* insert_user(&table, p); a record that is not inserted stays with the caller
InsertUser(p, rec, filler) ==
    /\ ~fault
    /\ \E fail_at \in (IF ~table.null /\ LoadExceeded(table.num_items, table.capacity)
                       THEN AllocChoices ELSE {0}) :
       \E r \in { insert_user(table,
                               [q \in (DOMAIN users) \cup ({p} \ {NULL}) |->
                                   IF q = p THEN rec ELSE users[q]],
                               p, errno, fail_at, 0) } :
           IF r.fault
           THEN \* (*pp_table)->items with *pp_table == NULL: undefined
                /\ fault' \in BOOLEAN
                /\ last' = Call("insert", rec.name, FALSE, NULL, FALSE, FALSE)
                /\ UNCHANGED <<table, users, hist>>
           ELSE /\ fault' = FALSE
                /\ table' = r.table
                /\ users' = IF r.table.null THEN EmptyHeap
                            ELSE IF r.ret THEN r.users
                            ELSE destroy_user(r.users, p)
                /\ last' = Call("insert", rec.name, r.ret,
                                IF r.ret THEN p ELSE NULL, r.grew,
                                fail_at # 0 /\ r.nalloc >= fail_at)
                /\ hist' = IF r.table.null THEN HistZero
                           ELSE IF ~r.ret THEN hist
                           ELSE [hist EXCEPT
                                   !.fill = IF filler THEN @ + 1 ELSE @,
                                   !.ntest = IF filler THEN @ ELSE @ + 1,
                                   !.inserts = @ + 1,
                                   !.grows = IF r.grew THEN @ + 1 ELSE @]
    /\ UNCHANGED <<errno, char_signed>>

\* the next filler name, a name no live record has
InsertFiller ==
    /\ ~table.null
    /\ hist.fill < MaxFill
    /\ hist.fill > 0 \/ table.capacity = INIT_TBL_CAP
    /\ InsertUser(hist.fill + 1,
                  create_user(FillerName(hist.fill + 1), FillerPasswd, 0), TRUE)

\* a record with a test name; live records may share the name
InsertTest ==
    /\ NoFill \/ NearFull
    /\ hist.ntest < MaxTest
    /\ \E name \in TestNames \cup AbsentNames :
          InsertUser(CreatedAt(MaxFill + hist.ntest + 1, name),
                     create_user(name, Payload(hist.ntest + 1).passwd,
                                 Payload(hist.ntest + 1).perms), FALSE)

\* lookup_user(table, name)
LookupName(name) ==
    /\ ~fault
    /\ \E p \in { lookup_user(table, users, name, errno) } :
           last' = Call("lookup", name, p # NULL, p, FALSE, FALSE)
    /\ UNCHANGED <<table, users, errno, fault, hist, char_signed>>

LookupUser ==
    /\ NoFill \/ NearFull
    /\ \E name \in ProbeNames \cup AbsentNames : LookupName(name)

\* delete_user(table, name)
DeleteName(name) ==
    /\ ~fault
    /\ \E r \in { delete_user(table, users, name, errno) } :
           /\ table' = r.table
           /\ users' = r.users
           /\ last' = Call("delete", name, r.ret, NULL, FALSE, FALSE)
           /\ hist' = IF r.ret THEN [hist EXCEPT !.pure = FALSE] ELSE hist
    /\ UNCHANGED <<errno, fault, char_signed>>

DeleteUser ==
    /\ NoFill \/ NearFull
    /\ \E name \in ProbeNames \cup AbsentNames : DeleteName(name)

\* table = rehash_table(&table), the call as insert_user makes it
RehashTable ==
    /\ ~fault
    /\ NoFill
    /\ hist.grows < MaxGrows
    /\ \E fail_at \in AllocChoices :
          \E r \in { rehash_table(table, users, errno, fail_at, 0) } :
              /\ table' = r.table
              /\ users' = IF r.table.null THEN EmptyHeap ELSE r.users
              /\ fault' = r.fault
              /\ last' = Call("rehash", << >>, ~r.table.null, NULL,
                              ~r.table.null, fail_at # 0 /\ r.nalloc >= fail_at)
              /\ hist' = IF r.table.null THEN HistZero
                         ELSE [hist EXCEPT !.grows = @ + 1, !.pure = FALSE]
    /\ UNCHANGED <<errno, char_signed>>

\* destroy_table(&table): every record, the array and the table are freed and
\* the handle is cleared; a NULL handle returns at once
DestroyTable ==
    /\ ~fault
    /\ \E r \in { destroy_table(table, users) } :
           /\ table' = r.table
           /\ users' = r.users
           /\ fault' = r.fault
    /\ last' = Call("destroy", << >>, TRUE, NULL, FALSE, FALSE)
    /\ hist' = HistZero
    /\ UNCHANGED <<errno, char_signed>>

\* table = create_table(), by a caller whose handle is NULL
CreateTable ==
    /\ ~fault
    /\ table.null
    /\ \E fail_at \in AllocChoices :
          /\ table' = create_table(fail_at)
          /\ last' = Call("create", << >>, fail_at = 0, NULL, FALSE, fail_at # 0)
    /\ UNCHANGED <<users, errno, fault, hist, char_signed>>

Next ==
    \/ InsertFiller
    \/ InsertTest
    \/ LookupUser
    \/ DeleteUser
    \/ RehashTable
    \/ DestroyTable
    \/ CreateTable

Spec == Init /\ [][Next]_vars

-----------------------------------------------------------------------------
(* Callers in a program whose other calls leave errno set *)

\* "[" hashes to 177664 = 347 * 512: bucket 0 at capacities 64 to 512
ZeroName == <<91>>

\* a library call elsewhere in the program fails with EINVAL, or the program
\* clears errno
SetErrno ==
    /\ ~fault
    /\ errno' = IF errno = EINVAL THEN 0 ELSE EINVAL
    /\ UNCHANGED <<table, users, fault, last, hist, char_signed>>

InsertZero ==
    /\ NoFill
    /\ hist.ntest < MaxTest
    /\ InsertUser(MaxFill + hist.ntest + 1,
                  create_user(ZeroName, Payload(hist.ntest + 1).passwd,
                              Payload(hist.ntest + 1).perms), FALSE)

LookupZero == LookupName(ZeroName)

DeleteZero == DeleteName(ZeroName)

NextEnv ==
    \/ SetErrno
    \/ InsertZero
    \/ LookupZero
    \/ DeleteZero
    \/ InsertTest
    \/ LookupUser
    \/ DeleteUser
    \/ RehashTable
    \/ DestroyTable
    \/ CreateTable

SpecEnv == Init /\ [][NextEnv]_vars

-----------------------------------------------------------------------------
(* djb_hash on its own: keys of any bytes, on either kind of build *)

\* "a", and the lowest byte that a signed char reads as negative
HashBytes == {97, 128}

\* the record of a djb_hash call: the key and the value returned
HashCall(key) == [op |-> "hash", name |-> key, res |-> djb_hash(key, strlen(key))]

HashInit ==
    /\ char_signed \in BOOLEAN
    /\ table = create_table(0)
    /\ users = EmptyHeap
    /\ errno = 0
    /\ fault = FALSE
    /\ hist = HistZero
    /\ last = HashCall(<< >>)

\* djb_hash(key, length); an absent key sets errno
HashKey(key) ==
    /\ last' = HashCall(key)
    /\ errno' = IF key = NullName THEN EINVAL ELSE errno
    /\ UNCHANGED <<table, users, fault, hist, char_signed>>

\* the last key with one more byte
HashExtend ==
    /\ last.name # NullName
    /\ Len(last.name) < MaxKeyLen
    /\ \E b \in HashBytes : HashKey(Append(last.name, b))

HashAbsent == HashKey(NullName)

HashEmpty ==
    /\ last.name # << >>
    /\ HashKey(<< >>)

NextHash ==
    \/ HashExtend
    \/ HashAbsent
    \/ HashEmpty

SpecHash == HashInit /\ [][NextHash]_vars

-----------------------------------------------------------------------------
(* Callers with names as long as the bound of strncmp, and longer *)

\* LongName is the longest name create_user copies; LongQuery has one more
\* byte and is in bucket 4 of 64, as LongName is
LongNames == {LongName, LongQuery}

\* the record with the long name is the first of a fresh table
InsertLong ==
    /\ ~table.null
    /\ last.op = "create"
    /\ hist.inserts = 0
    /\ InsertUser(MaxFill + hist.ntest + 1,
                  create_user(LongName, Payload(hist.ntest + 1).passwd,
                              Payload(hist.ntest + 1).perms), FALSE)

\* the call after the insert of the long name
AfterInsertLong == last.op = "insert" /\ last.ret /\ last.name = LongName

LookupLong ==
    /\ AfterInsertLong
    /\ \E name \in LongNames : LookupName(name)

DeleteLong ==
    /\ AfterInsertLong
    /\ \E name \in LongNames : DeleteName(name)

NextLong ==
    \/ InsertLong
    \/ LookupLong
    \/ DeleteLong
    \/ InsertTest
    \/ LookupUser
    \/ DeleteUser
    \/ DestroyTable
    \/ CreateTable

SpecLong == Init /\ [][NextLong]_vars

-----------------------------------------------------------------------------
(* What the claims speak of *)

RECURSIVE Chain(_, _)
\* the records of a chain, from its head
Chain(us, head) == IF head = NULL THEN << >> ELSE <<head>> \o Chain(us, us[head].next)

\* the positions (bucket, place in the chain) of the live table
Positions ==
    UNION { { <<i, k>> : k \in 1..Len(Chain(users, table.items[i])) } :
            i \in DOMAIN table.items }

RecordAt(pos) == Chain(users, table.items[pos[1]])[pos[2]]

\* the records reachable by walking the chains of all buckets
Reachable == { RecordAt(pos) : pos \in Positions }

LiveCount == Cardinality(Positions)

UniqueNames ==
    \A p, q \in Reachable : users[p].name = users[q].name => p = q

Lookup(name) == lookup_user(table, users, name, errno)

\* the same in the state after the step
LookupNext(name) == lookup_user(table', users', name, errno')

HashIndex(name) == U64Mod(djb_hash(name, strlen(name)), table.capacity)

\* the last call was a rehash_table that succeeded, direct or from insert_user
Grew == last.ret /\ last.grew /\ last.op \in {"insert", "rehash"}

Max(S) == CHOOSE m \in S : \A x \in S : x <= m

-----------------------------------------------------------------------------
\* C1: in every state of a live table num_items is the number of records
\* reachable by walking the chains of all buckets.
C1_NumItemsIsRecordCount ==
    ~table.null => table.num_items = LiveCount

\* C2: with unique live names, lookup_user(name) right after a successful
\* insert of a record with that name returns that record, and right after a
\* successful delete_user(name) returns NULL.
C2_LookupAfterInsertAndDelete ==
    [][ /\ (last'.op = "insert" /\ last'.ret /\ UniqueNames')
            => LookupNext(last'.name) = last'.id
        /\ (last'.op = "delete" /\ last'.ret /\ UniqueNames)
            => LookupNext(last'.name) = NULL ]_vars

C2_Witness ==
    /\ last.op = "insert" /\ last.ret /\ last.grew
    /\ UniqueNames
    /\ last.name \in TestNames
    /\ Len(Chain(users, table.items[HashIndex(last.name)])) >= 2

\* C3: when an allocation fails in the rehash that insert_user triggers, the
\* call fails and the caller's handle still designates the old table, with the
\* capacity, num_items and records it had.
C3_FailedGrowKeepsTable ==
    [][ (last'.op = "insert" /\ last'.allocfail)
          => (~last'.ret /\ table' = table /\ users' = users) ]_vars

\* C4: when several live records share a name, lookup_user(name) returns the
\* one inserted last.
C4_LookupReturnsLatest ==
    ~table.null =>
        \A name \in TestNames :
            LET same == { p \in Reachable : users[p].name = name }
            IN  Cardinality(same) >= 2 => Lookup(name) = Max(same)

\* C5: every record reachable from bucket i hashes, modulo the current
\* capacity, to i.
C5_RecordsInTheirBucket ==
    ~table.null =>
        \A pos \in Positions : HashIndex(users[RecordAt(pos)].name) = pos[1]

C5_Witness ==
    /\ Grew /\ last.op = "insert"
    /\ \E pos \in Positions : pos[1] >= INIT_TBL_CAP

\* C6: a successful insert_user rehashes exactly when (num_items + 1) /
\* capacity > 0.75 on entry; the capacity is then doubled, and is unchanged
\* otherwise.  From a fresh table, inserts 1..48 leave capacity 64 and the
\* 49th leaves capacity 128 and num_items 49.
C6_GrowExactlyPastThreshold ==
    /\ (last.op = "insert" /\ last.ret) =>
          /\ last.grew <=> (4 * (last.n0 + 1) > 3 * last.cap0)
          /\ table.capacity = IF 4 * (last.n0 + 1) > 3 * last.cap0
                              THEN 2 * last.cap0 ELSE last.cap0
    /\ (~table.null /\ hist.pure /\ hist.inserts <= 48) => table.capacity = 64
    /\ (~table.null /\ hist.pure /\ hist.inserts = 49)
          => (table.capacity = 128 /\ table.num_items = 49)

C6_Witness ==
    /\ last.op = "insert" /\ last.ret /\ last.grew
    /\ hist.pure /\ hist.inserts = 49

\* C7: a successful rehash_table leaves num_items as it was before it (an
\* insert_user that rehashed then adds its one record).
C7_GrowKeepsNumItems ==
    /\ (last.op = "rehash" /\ last.ret) => table.num_items = last.n0
    /\ (last.op = "insert" /\ last.ret /\ last.grew)
          => table.num_items = last.n0 + 1

\* C8: a successful delete_user decreases num_items by one; one that finds
\* no record leaves it unchanged.
C8_DeleteDecrementsNumItems ==
    last.op = "delete" =>
        table.num_items = IF last.ret THEN last.n0 - 1 ELSE last.n0

\* C9: a successful rehash neither drops nor duplicates records: the same
\* records are reachable, each once, with name, passwd and perms unchanged,
\* and with unique names each is what lookup_user returns for its name.
C9_GrowKeepsRecords ==
    [][ Grew' =>
          /\ Reachable' = Reachable \cup (IF last'.op = "insert" THEN {last'.id} ELSE {})
          /\ LiveCount' = Cardinality(Reachable')
          /\ \A p \in Reachable :
                /\ users'[p].name = users[p].name
                /\ users'[p].passwd = users[p].passwd
                /\ users'[p].perms = users[p].perms
          /\ UniqueNames' => \A p \in Reachable : LookupNext(users[p].name) = p ]_vars

C9_Witness ==
    /\ Grew
    /\ UniqueNames
    /\ LiveCount >= 2
    /\ \E pos \in Positions : pos[1] >= last.cap0

\* C10: right after every successful insert_user, num_items / capacity <= 0.75.
C10_LoadFactorAfterInsert ==
    (last.op = "insert" /\ last.ret) => 4 * table.num_items <= 3 * table.capacity

C10_Witness ==
    /\ last.op = "insert" /\ last.ret /\ last.grew
    /\ ~hist.pure


\* C11: insert_user, lookup_user and delete_user called with an absent table
\* or an absent name return their error outcome, without a fault and without
\* changing the table or its records.
C11_AbsentArgumentsRejected ==
    [][ (/\ last'.op \in {"insert", "lookup", "delete"}
         /\ (table.null \/ last'.name = NullName))
          => (~fault' /\ ~last'.ret /\ table' = table /\ users' = users) ]_vars


\* the reachable records named name
SameName(name) == { p \in Reachable : users[p].name = name }

\* the first record named name in the chain of name's bucket, NULL if none
FirstMatch(name) ==
    LET c == Chain(users, table.items[HashIndex(name)])
        ms == SelectSeq(c, LAMBDA q : users[q].name = name)
    IN  IF ms = << >> THEN NULL ELSE Head(ms)

\* chain by chain: the records after the step are those before it without
\* gone, in the same order and with the same contents
RemovedOnly(gone) ==
    /\ table'.capacity = table.capacity
    /\ \A i \in DOMAIN table.items :
          Chain(users', table'.items[i])
            = SelectSeq(Chain(users, table.items[i]), LAMBDA q : q # gone)
    /\ \A q \in Reachable \ {gone} :
          [users'[q] EXCEPT !.next = NULL] = [users[q] EXCEPT !.next = NULL]

\* C12: with k >= 1 live records sharing a name, delete_user(name) removes
\* exactly one record, the first match in chain order, which is the record
\* lookup_user(name) returns; a delete succeeds exactly when a record of that
\* name is live, so k deletes in a row succeed and the next reports not found.
C12_DeleteRemovesFirstMatch ==
    [][ (last'.op = "delete" /\ ~table.null /\ last'.name # NullName)
          => LET first == FirstMatch(last'.name)
             IN  /\ last'.ret <=> SameName(last'.name) # {}
                 /\ last'.ret =>
                      /\ first # NULL
                      /\ Lookup(last'.name) = first
                      /\ RemovedOnly(first)
                      /\ first \notin DOMAIN users' ]_vars

\* a delete succeeded and another record of the same name is still live,
\* behind a record of a different name
C12_Witness ==
    /\ last.op = "delete"
    /\ last.ret
    /\ ~table.null
    /\ SameName(last.name) # {}
    /\ \E i \in DOMAIN table.items :
          LET c == Chain(users, table.items[i])
          IN  /\ Len(c) >= 2
              /\ users[c[Len(c)]].name = last.name
              /\ users[c[1]].name # last.name

\* C13: a delete_user that reports not found leaves the table as it was:
\* capacity, num_items, every bucket head, every chain and every record.
C13_FailedDeleteChangesNothing ==
    [][ (last'.op = "delete" /\ ~last'.ret)
          => (table' = table /\ users' = users) ]_vars

\* a delete walked a non-empty chain of the name's bucket and found no match
C13_Witness ==
    /\ last.op = "delete"
    /\ ~last.ret
    /\ ~table.null
    /\ last.name # NullName
    /\ table.items[HashIndex(last.name)] # NULL


\* C14: destroy_table releases the table and every record and clears the
\* handle, without a fault; on a handle that designates no table (a second
\* destroy_table) it changes nothing and frees nothing.
C14_DestroyIsIdempotent ==
    [][ last'.op = "destroy"
          => /\ ~fault'
             /\ table'.null
             /\ users' = EmptyHeap
             /\ table.null => (table' = table /\ users' = users) ]_vars

\* destroy_table was called on a handle that designates no table
C14_Witness ==
    /\ last.op = "destroy"
    /\ last.cap0 = 0
    /\ table.null
    /\ ~fault


\* C18: a live table has capacity > 0 and capacity = 64 * 2^g, g the number
\* of successful grows since create_table; a table fresh from create_table
\* has capacity 64, num_items 0 and only empty buckets; no call on a live
\* table leaves it with a smaller capacity than it had on entry.
C18_CapacityIsInitialDoubled ==
    /\ ~table.null =>
          /\ table.capacity > 0
          /\ table.capacity = INIT_TBL_CAP * Pow2(hist.grows)
          /\ DOMAIN table.items = 0..(table.capacity - 1)
    /\ (last.op = "create" /\ last.ret) =>
          /\ ~table.null
          /\ table.capacity = INIT_TBL_CAP
          /\ table.num_items = 0
          /\ \A i \in DOMAIN table.items : table.items[i] = NULL
    /\ (~table.null /\ last.op # "create") => table.capacity >= last.cap0

\* a table that has grown twice, the second time just now
C18_Witness ==
    /\ ~table.null
    /\ Grew
    /\ hist.grows >= 2
    /\ table.capacity > last.cap0
    /\ last.cap0 > INIT_TBL_CAP

RECURSIVE WalkEnds(_, _, _)
\* the walk p, p->next, ... reaches NULL within fuel steps, through live
\* records only
WalkEnds(us, p, fuel) ==
    IF p = NULL THEN TRUE
    ELSE IF fuel = 0 \/ p \notin DOMAIN us THEN FALSE
    ELSE WalkEnds(us, us[p].next, fuel - 1)

\* C19: with every record inserted at most once, after any inserts, deletes
\* and grows every chain is finite and acyclic, and every live record is
\* reachable from exactly one bucket, at exactly one place of its chain.
C19_ChainsAreDisjointLists ==
    ~table.null =>
       /\ \A i \in DOMAIN table.items :
             WalkEnds(users, table.items[i], Cardinality(DOMAIN users))
       /\ Reachable = DOMAIN users
       /\ LiveCount = Cardinality(Reachable)

\* after a grow and a delete, a chain of two records or more and a second
\* non-empty chain
C19_Witness ==
    /\ ~table.null
    /\ hist.grows >= 1
    /\ last.op = "delete"
    /\ last.ret
    /\ \E i, j \in DOMAIN table.items :
          /\ i # j
          /\ Len(Chain(users, table.items[i])) >= 2
          /\ table.items[j] # NULL


\* C17: with a present table and name the outcome of lookup_user and
\* delete_user depends on the table and the name only, whatever errno is on
\* entry: the first record of that name in the name's bucket is found.
C17_OutcomeIgnoresErrno ==
    [][ (/\ last'.op \in {"lookup", "delete"}
         /\ ~table.null
         /\ last'.name # NullName)
          => /\ last'.ret <=> FirstMatch(last'.name) # NULL
             /\ last'.op = "lookup" => last'.id = FirstMatch(last'.name) ]_vars


\* C15: djb_hash returns 5381 for the empty key, and for every key k and
\* byte b of 0..255 the hash of k followed by b is (hash(k) * 33 + b) mod 2^64
\* with b taken as an unsigned byte value.
C15_HashIsTimes33PlusByte ==
    [][ /\ (last'.op = "hash" /\ last'.name = << >>)
            => last'.res = U64(5381)
        /\ (/\ last'.op = "hash"
            /\ last.name # NullName
            /\ last'.name # NullName
            /\ last'.name # << >>
            /\ last.name = SubSeq(last'.name, 1, Len(last'.name) - 1))
            => last'.res
                 = U64Carry(last.res, 33, last'.name[Len(last'.name)], 1, 0)
      ]_vars


\* C16: lookup_user and delete_user match a stored record only if its name
\* equals the queried name byte for byte over the full length of both: the
\* record a lookup returns, and the record a delete removes, has the queried
\* name.
C16_MatchIsFullNameEquality ==
    [][ /\ (last'.op = "lookup" /\ last'.ret)
            => users[last'.id].name = last'.name
        /\ (last'.op = "delete" /\ last'.ret)
            => \A q \in (DOMAIN users) \ (DOMAIN users') :
                  users[q].name = last'.name ]_vars

====
